---- MODULE Spec2Model ----
(***************************************************************************)
(* Model of the SqlxCrud derive macro (sqlx-crud-macros/src/lib_bak.rs).   *)
(*                                                                         *)
(* One expansion of #[derive(SqlxCrud)] is a run of the state machine:     *)
(*   start --Config::new--> configured --build_static_model_schema-->      *)
(*   schema_built --build_sqlx_crud_impl--> impl_built --quote!--> done    *)
(* and any panic! / expect() failure leads to "panicked".                  *)
(*                                                                         *)
(* A Rust String is modelled as the sequence of its lexical pieces         *)
(* (tokens): format! is concatenation of those pieces and join(", ")       *)
(* interleaves the ", " piece.  The properties below parse the produced    *)
(* token sequences; they never look at intermediate values of the          *)
(* generator.                                                              *)
(***************************************************************************)
EXTENDS Integers, Sequences, FiniteSets, TLC

\* Largest number of named fields of the struct the macro is applied to.
MaxFields == 3

\* Identifiers the struct's fields are drawn from (Rust rejects a struct
\* that declares the same field name twice, so the names of one struct are
\* distinct).
FieldNames == {"id", "email", "active", "uuid"}

\* The type written after each field name (opaque to the macro).
FieldTy(n) ==
    CASE n = "id" -> "i64"
      [] n = "email" -> "String"
      [] n = "active" -> "bool"
      [] OTHER -> "Uuid"

\* The struct's identifier.
StructIdent == "UserAccount"

\* String literals that may appear in #[database = "..."].
DatabaseTags == {"Any", "Mssql", "MsSql", "MySql", "Postgres", "Sqlite", "Oracle"}

\* String literals that may appear in #[external_ids = "..."].
ExternalIdTexts == {"true", "false", "yes"}

\* A struct-level attribute as Config::new sees it after parse_meta():
\*   kind "none"  - the attribute is absent,
\*   kind "str"   - Meta::NameValue with a Lit::Str (value is its text),
\*   kind "other" - present, but a path, a list, a non-string literal or a
\*                  parse error.
NoAttr == [kind |-> "none", value |-> ""]
OtherAttr == [kind |-> "other", value |-> ""]
StrAttr(v) == [kind |-> "str", value |-> v]

DatabaseAttrs == {NoAttr, OtherAttr} \cup {StrAttr(t) : t \in DatabaseTags}
ExternalIdsAttrs == {NoAttr, OtherAttr} \cup {StrAttr(t) : t \in ExternalIdTexts}

\* syn::Field of a named struct: ident, ty and whether attrs holds #[id].
Fields == [ident : FieldNames, ty : {"i64", "String", "bool", "Uuid"}, id_attr : BOOLEAN]

WellTyped(f) == f.ty = FieldTy(f.ident)

\* Punctuated<Field, Comma> values: up to MaxFields fields, distinct names.
NamedLists ==
    {s \in UNION {[1..n -> {f \in Fields : WellTyped(f)}] : n \in 0..MaxFields} :
        \A i, j \in 1..Len(s) : i # j => s[i].ident # s[j].ident}

----------------------------------------------------------------------------
(* Iterator helpers                                                        *)

\* .collect::<Vec<_>>().join(sep) over pieces that are token sequences.
RECURSIVE Join(_, _)
Join(parts, sep) ==
    IF Len(parts) = 0 THEN <<>>
    ELSE IF Len(parts) = 1 THEN parts[1]
    ELSE parts[1] \o sep \o Join(Tail(parts), sep)

\* named.iter().flat_map(|f| &f.ident): the field idents in order.
Idents(named) == [i \in 1..Len(named) |-> named[i].ident]

\* Iterator::find over the fields: index of the first match, 0 for None.
RECURSIVE FindFrom(_, _, _)
FindFrom(named, i, want_id_attr) ==
    IF i > Len(named) THEN 0
    ELSE IF named[i].id_attr = want_id_attr THEN i
    ELSE FindFrom(named, i + 1, want_id_attr)

----------------------------------------------------------------------------
(* DbType                                                                  *)

DbTypes == {"Any", "Mssql", "MySql", "Postgres", "Sqlite"}
Panic == "PANIC"

\* impl From<&str> for DbType
DbTypeFrom(db_type) ==
    CASE db_type = "Any" -> "Any"
      [] db_type = "Mssql" -> "Mssql"
      [] db_type = "MySql" -> "MySql"
      [] db_type = "Postgres" -> "Postgres"
      [] db_type = "Sqlite" -> "Sqlite"
      [] OTHER -> Panic

\* DbType::from_attributes
from_attributes(attr) ==
    IF attr.kind = "str" THEN DbTypeFrom(attr.value) ELSE "Sqlite"

\* DbType::build_sqlx_db
build_sqlx_db(db_ty) ==
    CASE db_ty = "Any" -> "::sqlx::Any"
      [] db_ty = "Mssql" -> "::sqlx::Mssql"
      [] db_ty = "MySql" -> "::sqlx::MySql"
      [] db_ty = "Postgres" -> "::sqlx::Postgres"
      [] db_ty = "Sqlite" -> "::sqlx::Sqlite"

\* The two quote characters.  A back-tick cannot be written inside a TLA+
\* string literal, so the character U+0060 is the token "BACKTICK".
DQ == "\""
BT == "BACKTICK"

quote_ident_always_double(db_ty, ident) == <<DQ, ident, DQ>>

\* DbType::quote_ident (Config::quote_ident forwards to it)
quote_ident(db_ty, ident) ==
    CASE db_ty = "Any" -> <<DQ, ident, DQ>>
      [] db_ty = "Mssql" -> <<DQ, ident, DQ>>
      [] db_ty = "MySql" -> <<BT, ident, BT>>
      [] db_ty = "Postgres" -> <<DQ, ident, DQ>>
      [] db_ty = "Sqlite" -> <<DQ, ident, DQ>>

----------------------------------------------------------------------------
(* Config::new                                                             *)

\* Inflector's to_table_case on the struct ident (snake case, pluralised).
to_table_case(ident) == IF ident = "UserAccount" THEN "user_accounts" ELSE Panic

\* format_ident!("{}_SCHEMA", ident.to_screaming_snake_case())
model_schema_ident(ident) ==
    IF ident = "UserAccount" THEN "USER_ACCOUNT_SCHEMA" ELSE Panic

RECURSIVE FindLastFrom(_, _, _)
FindLastFrom(named, i, want_id_attr) ==
    IF i < 1 THEN 0
    ELSE IF named[i].id_attr = want_id_attr THEN i
    ELSE FindLastFrom(named, i - 1, want_id_attr)

id_attr_last(named) == FindLastFrom(named, Len(named), TRUE)

\* let id_attr = named.iter().find(|f| f has #[id]): index of the field, 0 = None
id_attr(named) == FindFrom(named, 1, TRUE)

id_column_ident_default_last(named) ==
    IF id_attr(named) # 0 THEN named[id_attr(named)].ident
    ELSE IF Len(named) = 0 THEN Panic
    ELSE named[Len(named)].ident

\* id_attr.unwrap_or_else(|| first field .expect("the first field"))
id_column_ident(named) ==
    IF id_attr(named) # 0 THEN named[id_attr(named)].ident
    ELSE IF Len(named) = 0 THEN Panic
    ELSE named[1].ident

\* s.value().parse::<bool>().unwrap_or_else(|_| false), and false when the
\* attribute is absent or not a string name-value
external_id_of(attr) ==
    IF attr.kind = "str" THEN attr.value = "true" ELSE FALSE

NoConfig == [set |-> FALSE]

ConfigOf(attrs_database, attrs_external_ids, named) ==
    [set |-> TRUE,
     ident |-> StructIdent,
     named |-> named,
     db_ty |-> from_attributes(attrs_database),
     model_schema_ident |-> model_schema_ident(StructIdent),
     table_name |-> to_table_case(StructIdent),
     id_column_ident |-> id_column_ident(named),
     external_id |-> external_id_of(attrs_external_ids)]

----------------------------------------------------------------------------
(* build_sql_queries                                                       *)

insert_bind_cnt_minus_two(config) ==
    IF config.external_id THEN Len(config.named) ELSE Len(config.named) - 2

\* usize arithmetic: a negative value here is the subtraction overflowing
insert_bind_cnt(config) ==
    IF config.external_id THEN Len(config.named) ELSE Len(config.named) - 1

insert_sql_binds(config) ==
    Join([k \in 1..insert_bind_cnt(config) |-> <<"?">>], <<", ">>)

NonId(config) ==
    SelectSeq(Idents(config.named), LAMBDA i : i # config.id_column_ident)

update_sql_binds(config) ==
    LET kept == NonId(config)
    IN Join([k \in 1..Len(kept) |->
                quote_ident(config.db_ty, kept[k]) \o <<" = ", "?">>],
            <<", ">>)

insert_column_list(config) ==
    LET kept == SelectSeq(Idents(config.named),
                    LAMBDA i : ~config.external_id /\ i # config.id_column_ident)
    IN Join([k \in 1..Len(kept) |-> quote_ident(config.db_ty, kept[k])], <<", ">>)

sql_table_name(config) == quote_ident(config.db_ty, config.table_name)

sql_id_column(config) ==
    sql_table_name(config) \o <<".">>
        \o quote_ident(config.db_ty, config.id_column_ident)

column_list_reversed(config) ==
    LET n == Len(config.named)
    IN Join([k \in 1..n |->
                sql_table_name(config) \o <<".">>
                    \o quote_ident(config.db_ty, config.named[n + 1 - k].ident)],
            <<", ">>)

column_list(config) ==
    Join([k \in 1..Len(config.named) |->
            sql_table_name(config) \o <<".">>
                \o quote_ident(config.db_ty, config.named[k].ident)],
         <<", ">>)

build_sql_queries(config) ==
    [select_sql |->
        <<"SELECT ">> \o column_list(config) \o <<" FROM ">> \o sql_table_name(config),
     select_by_id_sql |->
        <<"SELECT ">> \o column_list(config) \o <<" FROM ">> \o sql_table_name(config)
            \o <<" WHERE ">> \o sql_id_column(config) \o <<" = ", "?", " LIMIT 1">>,
     insert_sql |->
        <<"INSERT INTO ">> \o sql_table_name(config) \o <<" (">>
            \o insert_column_list(config) \o <<") VALUES (">>
            \o insert_sql_binds(config) \o <<") RETURNING ">> \o column_list(config),
     update_by_id_sql |->
        <<"UPDATE ">> \o sql_table_name(config) \o <<" SET ">>
            \o update_sql_binds(config) \o <<" WHERE ">> \o sql_id_column(config)
            \o <<" = ", "?", " RETURNING ">> \o column_list(config),
     delete_by_id_sql |->
        <<"DELETE FROM ">> \o sql_table_name(config) \o <<" WHERE ">>
            \o sql_id_column(config) \o <<" = ", "?">>]

\* build_static_model_schema: the Metadata static
build_static_model_schema(config) ==
    [set |-> TRUE,
     name |-> config.model_schema_ident,
     columns_len |-> Len(config.named),
     table_name |-> config.table_name,
     id_column |-> config.id_column_ident,
     columns |-> Idents(config.named),
     sql |-> build_sql_queries(config)]

NoSchema == [set |-> FALSE]

----------------------------------------------------------------------------
(* build_sqlx_crud_impl                                                    *)

\* named.iter().find(|f| f.ident == Some(id_column_ident)).map(|f| &f.ty)
id_ty(config) ==
    LET hits == SelectSeq(config.named, LAMBDA f : f.ident = config.id_column_ident)
    IN IF Len(hits) = 0 THEN Panic ELSE hits[1].ty

\* the .bind(&self.#i) calls of fn insert_binds, as the bound field names
insert_binds(config) == Idents(config.named)

update_binds_unfiltered(config) ==
    Idents(config.named) \o <<config.id_column_ident>>

\* the .bind(&self.#i) calls of fn update_binds, then .bind(&self.#id)
update_binds(config) == NonId(config) \o <<config.id_column_ident>>

build_sqlx_crud_impl(config) ==
    [set |-> TRUE,
     id_ty |-> id_ty(config),
     sqlx_db |-> build_sqlx_db(config.db_ty),
     insert_binds |-> insert_binds(config),
     update_binds |-> update_binds(config)]

NoImpl == [set |-> FALSE]

----------------------------------------------------------------------------
(* The expansion as a state machine                                        *)

VARIABLES
    data,                \* "named_struct" or "other" (enum, union, tuple struct)
    named,               \* the struct's named fields
    attrs_database,      \* the #[database ...] attribute
    attrs_external_ids,  \* the #[external_ids ...] attribute
    pc,                  \* position of derive()
    config,              \* the Config built by Config::new
    schema,              \* result of build_static_model_schema
    crud_impl,           \* result of build_sqlx_crud_impl
    output,              \* what derive() returns to the compiler
    panic_msg            \* message of the panic that aborted the expansion

vars == <<data, named, attrs_database, attrs_external_ids, pc, config, schema,
          crud_impl, output, panic_msg>>

inputs == <<data, named, attrs_database, attrs_external_ids>>

Init ==
    /\ data \in {"named_struct", "other"}
    /\ named \in (IF data = "named_struct" THEN NamedLists ELSE {<<>>})
    /\ attrs_database \in DatabaseAttrs
    /\ attrs_external_ids \in ExternalIdsAttrs
    /\ pc = "start"
    /\ config = NoConfig
    /\ schema = NoSchema
    /\ crud_impl = NoImpl
    /\ output = NoSchema
    /\ panic_msg = ""

\* derive(): data is not a struct with named fields
DeriveReject ==
    /\ pc = "start"
    /\ data # "named_struct"
    /\ pc' = "panicked"
    /\ panic_msg' = "this derive macro only works on structs with named fields"
    /\ UNCHANGED <<inputs, config, schema, crud_impl, output>>

\* derive(): let config = Config::new(&attrs, &ident, &named)
ConfigNew ==
    /\ pc = "start"
    /\ data = "named_struct"
    /\ IF from_attributes(attrs_database) = Panic
       THEN /\ pc' = "panicked"
            /\ panic_msg' = "unknown #[database] type"
            /\ config' = config
       ELSE IF id_column_ident(named) = Panic
       THEN /\ pc' = "panicked"
            /\ panic_msg' = "the first field"
            /\ config' = config
       ELSE /\ pc' = "configured"
            /\ panic_msg' = panic_msg
            /\ config' = ConfigOf(attrs_database, attrs_external_ids, named)
    /\ UNCHANGED <<inputs, schema, crud_impl, output>>

\* derive(): let static_model_schema = build_static_model_schema(&config)
\* A field count of 0 with external_id = false makes count() - 1 overflow:
\* a panic in a debug build, a wrap to usize::MAX (and a failing
\* allocation) in a release build.
BuildStaticModelSchema ==
    /\ pc = "configured"
    /\ IF insert_bind_cnt(config) < 0
       THEN /\ pc' = "panicked"
            /\ panic_msg' \in {"attempt to subtract with overflow", "capacity overflow"}
            /\ schema' = schema
       ELSE /\ pc' = "schema_built"
            /\ panic_msg' = panic_msg
            /\ schema' = build_static_model_schema(config)
    /\ UNCHANGED <<inputs, config, crud_impl, output>>

\* derive(): let sqlx_crud_impl = build_sqlx_crud_impl(&config)
BuildSqlxCrudImpl ==
    /\ pc = "schema_built"
    /\ IF id_ty(config) = Panic
       THEN /\ pc' = "panicked"
            /\ panic_msg' = "the id type"
            /\ crud_impl' = crud_impl
       ELSE /\ pc' = "impl_built"
            /\ panic_msg' = panic_msg
            /\ crud_impl' = build_sqlx_crud_impl(config)
    /\ UNCHANGED <<inputs, config, schema, output>>

\* derive(): quote! { use ...; #static_model_schema } (the impl is not emitted)
Emit ==
    /\ pc = "impl_built"
    /\ pc' = "done"
    /\ output' = schema
    /\ UNCHANGED <<inputs, config, schema, crud_impl, panic_msg>>

Next ==
    \/ DeriveReject
    \/ ConfigNew
    \/ BuildStaticModelSchema
    \/ BuildSqlxCrudImpl
    \/ Emit

Spec == Init /\ [][Next]_vars

TypeOK ==
    /\ pc \in {"start", "configured", "schema_built", "impl_built", "done", "panicked"}
    /\ config.set => config.db_ty \in DbTypes

----------------------------------------------------------------------------
(* Reading the generated strings back                                      *)

\* Every identifier the generator can put into a statement.
ColumnIdents == FieldNames
AllIdents == ColumnIdents \cup {to_table_case(StructIdent)}

SetMax(S) == CHOOSE x \in S : \A y \in S : y <= x
SetMin(S) == CHOOSE x \in S : \A y \in S : x <= y

\* Index of the first occurrence of tok in s at or after from (0: none).
RECURSIVE IndexOf(_, _, _)
IndexOf(s, tok, from) ==
    IF from > Len(s) THEN 0
    ELSE IF s[from] = tok THEN from
    ELSE IndexOf(s, tok, from + 1)

\* The text of s strictly between the pieces a and b / after the piece a.
Between(s, a, b) ==
    LET i == IndexOf(s, a, 1)
        j == IndexOf(s, b, i + 1)
    IN SubSeq(s, i + 1, j - 1)

After(s, a) == SubSeq(s, IndexOf(s, a, 1) + 1, Len(s))

Count(s, tok) == Cardinality({i \in 1..Len(s) : s[i] = tok})

\* The column names occurring in a piece of SQL, in order.
ColumnNames(s) == SelectSeq(s, LAMBDA t : t \in ColumnIdents)

\* For each '?' of s in order, the column named last before it.
PlaceholderCols(s) ==
    LET qpos == SelectSeq([i \in 1..Len(s) |-> i], LAMBDA i : s[i] = "?")
        colBefore(i) ==
            LET js == {j \in 1..(i - 1) : s[j] \in ColumnIdents}
            IN IF js = {} THEN "" ELSE s[SetMax(js)]
    IN [k \in 1..Len(qpos) |-> colBefore(qpos[k])]

InsertColumnsOf(sql) == ColumnNames(Between(sql.insert_sql, " (", ") VALUES ("))
InsertPlaceholdersOf(sql) ==
    Count(Between(sql.insert_sql, ") VALUES (", ") RETURNING "), "?")
UpdateSetColumnsOf(sql) == ColumnNames(Between(sql.update_by_id_sql, " SET ", " WHERE "))

\* The four places column_list is used in.
ColumnListUses(sql) ==
    {Between(sql.select_sql, "SELECT ", " FROM "),
     Between(sql.select_by_id_sql, "SELECT ", " FROM "),
     After(sql.insert_sql, ") RETURNING "),
     After(sql.update_by_id_sql, " RETURNING ")}

Statements(sql) ==
    {sql.select_sql, sql.select_by_id_sql, sql.insert_sql,
     sql.update_by_id_sql, sql.delete_by_id_sql}

\* Indices of the fields that carry #[id].
Annotated == {i \in 1..Len(named) : named[i].id_attr}

\* Declared field names without the resolved id column, in order.
DeclaredNonId ==
    SelectSeq([i \in 1..Len(named) |-> named[i].ident],
              LAMBDA n : n # schema.id_column)

DeclaredNames == [i \in 1..Len(named) |-> named[i].ident]

----------------------------------------------------------------------------
(* Claims                                                                  *)

\* C1: for every record with a non-empty field list and for both values of
\* external_id, the number of '?' in the VALUES clause of insert_sql equals
\* the number of columns in insert_sql's column list.
C1_PlaceholdersMatchColumns ==
    schema.set =>
        InsertPlaceholdersOf(schema.sql) = Len(InsertColumnsOf(schema.sql))

\* C2: insert_sql's column list is exactly the non-id fields in declared
\* order when external_id is false, and every field (id included) in
\* declared order when external_id is true.
C2_InsertColumnList ==
    schema.set =>
        InsertColumnsOf(schema.sql) =
            (IF config.external_id THEN DeclaredNames ELSE DeclaredNonId)

\* C3: the insert binding plan matches insert_sql positionally: as many
\* bound values as '?' placeholders, and the i-th bound value is the field
\* named by the i-th column of the column list.
C3_InsertBindsMatch ==
    crud_impl.set =>
        /\ Len(crud_impl.insert_binds) = InsertPlaceholdersOf(schema.sql)
        /\ crud_impl.insert_binds = InsertColumnsOf(schema.sql)

\* C4: update_set_list never contains the id column; update binds are the
\* non-id fields in declared order followed by the id field strictly last;
\* the k-th bound value is the column of the k-th placeholder of
\* update_by_id_sql and there are as many bound values as placeholders.
C4_UpdateBinds ==
    crud_impl.set =>
        LET ub == crud_impl.update_binds
            sql == schema.sql.update_by_id_sql
        IN /\ \A k \in 1..Len(UpdateSetColumnsOf(schema.sql)) :
                  UpdateSetColumnsOf(schema.sql)[k] # schema.id_column
           /\ Len(ub) >= 1
           /\ ub[Len(ub)] = schema.id_column
           /\ SubSeq(ub, 1, Len(ub) - 1) = DeclaredNonId
           /\ Len(ub) = Count(sql, "?")
           /\ PlaceholderCols(sql) = ub

C4_Witness ==
    /\ crud_impl.set
    /\ Len(named) = 3
    /\ schema.id_column = named[2].ident
    /\ Len(crud_impl.update_binds) = 3

\* C5 (as stated): with more than one annotated field, construction does
\* not fail and the id column is the LAST annotated field.
C5_LastWins ==
    (/\ pc # "start"
     /\ data = "named_struct"
     /\ Cardinality(Annotated) > 1
     /\ panic_msg # "unknown #[database] type") =>
        /\ config.set
        /\ config.id_column_ident = named[SetMax(Annotated)].ident

\* C5 (amended): with more than one annotated field, construction does not
\* fail on that account (only an unknown #[database] type aborts it) and
\* the id column is the FIRST annotated field in declaration order.
C5_FirstWins ==
    (/\ pc # "start"
     /\ data = "named_struct"
     /\ Cardinality(Annotated) > 1) =>
        /\ pc = "panicked" => panic_msg = "unknown #[database] type"
        /\ pc # "panicked" =>
              /\ config.set
              /\ config.id_column_ident = named[SetMin(Annotated)].ident

C5_Witness ==
    /\ config.set
    /\ Annotated = {2, 3}
    /\ config.id_column_ident = named[2].ident

\* C6: the resolved id field is one of the declared fields: the annotated
\* field when exactly one field is annotated, the first declared field when
\* none is; its type is the one the Schema impl uses as Id.
C6_IdFieldResolved ==
    /\ config.set =>
          /\ \E i \in 1..Len(named) : named[i].ident = config.id_column_ident
          /\ Cardinality(Annotated) = 1 =>
                \A i \in Annotated : config.id_column_ident = named[i].ident
          /\ Annotated = {} => config.id_column_ident = named[1].ident
    /\ crud_impl.set =>
          \E i \in 1..Len(named) :
              /\ named[i].ident = config.id_column_ident
              /\ named[i].ty = crud_impl.id_ty

C6_Witness ==
    /\ crud_impl.set
    /\ Len(named) >= 2
    /\ Annotated = {}
    /\ config.id_column_ident = named[1].ident

\* C7: in each of the five statements every identifier is wrapped in
\* back-ticks for MySql and in double quotes for Any, Mssql, Postgres and
\* Sqlite; no identifier is unquoted and the other quote never appears.
C7_Quoting ==
    schema.set =>
        LET q == IF config.db_ty = "MySql" THEN BT ELSE DQ
            other == IF config.db_ty = "MySql" THEN DQ ELSE BT
        IN \A s \in Statements(schema.sql) :
              /\ \A i \in 1..Len(s) :
                    s[i] \in AllIdents =>
                        /\ i > 1 /\ s[i - 1] = q
                        /\ i < Len(s) /\ s[i + 1] = q
              /\ Count(s, other) = 0
              /\ Count(s, q) = 2 * Cardinality({i \in 1..Len(s) : s[i] \in AllIdents})
              /\ \E i \in 1..Len(s) : s[i] = schema.table_name

C7_Witness ==
    /\ schema.set
    /\ config.db_ty = "MySql"
    /\ Len(named) >= 2
    /\ Count(schema.sql.update_by_id_sql, BT) >= 8

\* C8: construction aborts, and nothing is produced, whenever the field
\* list is empty or the supplied dialect tag is not a recognized one; the
\* default Sqlite is used only when no dialect annotation is given.  (The
\* tag the spec writes MsSql is spelled Mssql in the code; both spellings
\* count as the recognized tag here.)
C8_FailFast ==
    (pc # "start" /\ data = "named_struct") =>
        /\ (\/ Len(named) = 0
            \/ /\ attrs_database.kind = "str"
               /\ attrs_database.value \notin
                      {"Any", "MsSql", "Mssql", "MySql", "Postgres", "Sqlite"}) =>
              (pc = "panicked" /\ ~config.set /\ ~schema.set /\ ~output.set)
        /\ (config.set /\ config.db_ty = "Sqlite") =>
              (attrs_database.kind = "none" \/ attrs_database = StrAttr("Sqlite"))

\* C9: everywhere column_list is used it holds every declared field exactly
\* once, in declaration order, each qualified with the table name; the
\* metadata's columns are the same fields in the same order.
C9_ColumnList ==
    schema.set =>
        LET q == IF config.db_ty = "MySql" THEN BT ELSE DQ
            n == Len(named)
        IN /\ schema.columns = DeclaredNames
           /\ schema.columns_len = n
           /\ \A seg \in ColumnListUses(schema.sql) :
                 /\ Len(seg) = 8 * n - 1
                 /\ \A k \in 1..n :
                       SubSeq(seg, 8 * (k - 1) + 1, 8 * (k - 1) + 7) =
                           <<q, schema.table_name, q, ".", q, named[k].ident, q>>
                 /\ \A k \in 1..(n - 1) : seg[8 * k] = ", "

C9_Witness ==
    /\ schema.set
    /\ Len(named) = 3
    /\ ColumnNames(After(schema.sql.insert_sql, ") RETURNING ")) = DeclaredNames

\* C10: for every constructed descriptor SQL generation completes with all
\* five statements; the insert placeholder count (field count, minus one
\* when external_id is false) is never negative.
C10_GenerationTotal ==
    [][pc = "configured" =>
          /\ pc' = "schema_built"
          /\ schema'.set
          /\ \A s \in Statements(schema'.sql) : Len(s) > 0
          /\ Len(named) - (IF config.external_id THEN 0 ELSE 1) >= 0
          /\ InsertPlaceholdersOf(schema'.sql) =
                 Len(named) - (IF config.external_id THEN 0 ELSE 1)]_vars

C10_Witness ==
    /\ schema.set
    /\ Len(named) = 1
    /\ ~config.external_id
    /\ InsertPlaceholdersOf(schema.sql) = 0
    /\ InsertColumnsOf(schema.sql) = <<>>

====
